---- MODULE Spec2Model ----
(***************************************************************************)
(* A model of the stateful components of ai-types' llm module:             *)
(*   - the text stream adapter of src/llm/stream.rs (lazy pulls through    *)
(*     Stream::poll_next, collection through IntoFuture / Future::poll),   *)
(*     alone, dropped before completion, and next to a second instance;    *)
(*   - the tool registry of src/llm/tool.rs (Tools and ToolImpl);          *)
(*   - generate, categorize and summarize of src/llm/mod.rs.               *)
(* Text is a sequence of characters, so that concatenation, merging and    *)
(* elision of chunks are all distinguishable.                              *)
(***************************************************************************)
EXTENDS Naturals, Sequences, FiniteSets

VARIABLES
    source,     \* the items the underlying stream S yields, in order
    avail,      \* how many of S's poll results are ready (Len(source)+1: the end is)
    pos,        \* how many items S has yielded
    mode,       \* "stream": TextStreamAdapter, "future": TextStreamAdapterFuture, "done"
    buffer,     \* TextStreamAdapterFuture.buffer
    delivered,  \* the Poll::Ready results of the lazy pulls, in order
    lastPoll,   \* what the last poll of the adapter (either mode) returned
    result,     \* the output of the collect future, once it is ready
    startPos,   \* pos when into_future was called
    pulls,      \* how many Poll::Ready results S has returned
    peer,       \* a second adapter over a source of its own, as a record
    gen,        \* a call of generate, categorize or summarize (llm/mod.rs)
    inFlight,   \* the futures of Tools::call that exist: each borrows the registry
    tools,      \* Tools.tools: the BTreeMap, as its entries in key order
    nextId,     \* identity of the next tool instance handed to register
    lastOp,     \* the last registry operation and what it returned
    hist        \* per name, the last of register / unregister applied to it

streamVars ==
    <<source, avail, pos, mode, buffer, delivered, lastPoll, result, startPos, pulls, peer>>
toolVars == <<tools, nextId, lastOp, hist>>
vars == <<streamVars, toolVars, gen, inFlight>>

----------------------------------------------------------------------------
(* Bounds of the model *)

MaxItems == 3
MaxChunkLen == 1
MaxRegs == 3
MaxCalls == 2

Chars == {"a", "b"}
Errors == {"E1", "E2"}

----------------------------------------------------------------------------
(* Result<String, E> and the poll results *)

Ok(t) == [ok |-> TRUE, text |-> t, err |-> "-"]
Err(e) == [ok |-> FALSE, text |-> <<>>, err |-> e]

Texts == UNION {[1..n -> Chars] : n \in 0..MaxChunkLen}
Items == {Ok(t) : t \in Texts} \cup {Err(e) : e \in Errors}
Sources == UNION {[1..n -> Items] : n \in 0..MaxItems}

NoItem == [ok |-> FALSE, text |-> <<>>, err |-> "-"]
Pending == [kind |-> "pending", item |-> NoItem]
ReadyNone == [kind |-> "end", item |-> NoItem]
ReadySome(it) == [kind |-> "item", item |-> it]

NoResult == [ok |-> FALSE, text |-> <<>>, err |-> "unset"]

\* No second adapter exists.
NoPeer == [source |-> <<>>, avail |-> 0, pos |-> 0, mode |-> "none", buffer |-> <<>>,
           delivered |-> <<>>, result |-> NoResult, startPos |-> 0]

----------------------------------------------------------------------------
(* The underlying stream S (stream.rs: the `stream: S` field).  It yields   *)
(* the items of `source` in order, reports Pending while the next poll      *)
(* result is not ready, and None once every item has been yielded.          *)

SourcePollNext(p) ==
    IF p >= avail THEN [res |-> Pending, pos |-> p]
    ELSE IF p < Len(source) THEN [res |-> ReadySome(source[p + 1]), pos |-> p + 1]
    ELSE [res |-> ReadyNone, pos |-> p]

(* The environment makes one more poll result of S ready. *)
SourceReady ==
    /\ avail <= Len(source)
    /\ avail' = avail + 1
    /\ UNCHANGED <<source, pos, mode, buffer, delivered, lastPoll, result, startPos, pulls>>
    /\ UNCHANGED <<toolVars, gen, inFlight, peer>>

----------------------------------------------------------------------------
(* TextStreamAdapter: Stream::poll_next (stream.rs 104-106) *)

\* A variant that elides empty chunks: it polls again instead of yielding Ok("").
AdapterPollNextElideEmpty(p) ==
    LET r == SourcePollNext(p)
    IN  IF r.res.kind = "item" /\ r.res.item.ok /\ r.res.item.text = <<>>
        THEN SourcePollNext(r.pos)
        ELSE r

\* A variant that retries internally after an error instead of surfacing it.
AdapterPollNextRetry(p) ==
    LET r == SourcePollNext(p)
    IN  IF r.res.kind = "item" /\ ~r.res.item.ok
        THEN SourcePollNext(r.pos)
        ELSE r

\* A variant that remembers a failure or the end: once the source has yielded an
\* error or its end, every later pull reports the end without asking the source.
AdapterPollNextFused(p) ==
    IF (\E i \in 1..p : ~source[i].ok) \/ (p = Len(source) /\ Len(delivered) > Len(source))
    THEN [res |-> ReadyNone, pos |-> p]
    ELSE SourcePollNext(p)

AdapterPollNext(p) == SourcePollNext(p)

\* One lazy pull.  Pulls after the end are followed for two more results.
PollNext ==
    /\ mode = "stream"
    /\ Len(delivered) < Len(source) + 2
    /\ LET r == AdapterPollNext(pos)
       IN  /\ pos' = r.pos
           /\ lastPoll' = r.res.kind
           /\ delivered' = IF r.res.kind = "pending" THEN delivered
                           ELSE Append(delivered, r.res)
           /\ pulls' = pulls + (IF r.res.kind = "pending" THEN 0 ELSE 1)
    /\ UNCHANGED <<source, avail, mode, buffer, result, startPos>>
    /\ UNCHANGED <<toolVars, gen, inFlight, peer>>

----------------------------------------------------------------------------
(* IntoFuture::into_future (stream.rs 121-126) *)

\* A variant that starts the source over instead of continuing it.
IntoFutureRestart ==
    /\ mode = "stream"
    /\ mode' = "future"
    /\ buffer' = <<>>
    /\ pos' = 0
    /\ startPos' = pos
    /\ UNCHANGED <<source, avail, delivered, lastPoll, result, pulls>>
    /\ UNCHANGED <<toolVars, gen, inFlight, peer>>

IntoFuture ==
    /\ mode = "stream"
    /\ mode' = "future"
    /\ buffer' = <<>>
    /\ startPos' = pos
    /\ UNCHANGED <<source, avail, pos, delivered, lastPoll, result, pulls>>
    /\ UNCHANGED <<toolVars, gen, inFlight, peer>>

----------------------------------------------------------------------------
(* TextStreamAdapterFuture: Future::poll (stream.rs 144-163).  One call of  *)
(* poll runs the loop until the source is pending, fails or ends.           *)

RECURSIVE CollectLoopPrepend(_, _)
\* A variant that puts each chunk in front of the buffer.
CollectLoopPrepend(p, buf) ==
    LET s == SourcePollNext(p)
    IN  IF s.res.kind = "pending"
        THEN [ready |-> FALSE, out |-> NoResult, pos |-> s.pos, buffer |-> buf]
        ELSE IF s.res.kind = "item"
        THEN IF s.res.item.ok
             THEN CollectLoopPrepend(s.pos, s.res.item.text \o buf)
             ELSE [ready |-> TRUE, out |-> Err(s.res.item.err), pos |-> s.pos,
                   buffer |-> buf]
        ELSE [ready |-> TRUE, out |-> Ok(buf), pos |-> s.pos, buffer |-> <<>>]

RECURSIVE CollectLoopSwallow(_, _)
\* A variant that skips a failed chunk and keeps collecting.
CollectLoopSwallow(p, buf) ==
    LET s == SourcePollNext(p)
    IN  IF s.res.kind = "pending"
        THEN [ready |-> FALSE, out |-> NoResult, pos |-> s.pos, buffer |-> buf]
        ELSE IF s.res.kind = "item"
        THEN IF s.res.item.ok
             THEN CollectLoopSwallow(s.pos, buf \o s.res.item.text)
             ELSE CollectLoopSwallow(s.pos, buf)
        ELSE [ready |-> TRUE, out |-> Ok(buf), pos |-> s.pos, buffer |-> <<>>]

RECURSIVE CollectLoopPullsOn(_, _)
\* A variant that pulls the source once more after a failed chunk.
CollectLoopPullsOn(p, buf) ==
    LET s == SourcePollNext(p)
    IN  IF s.res.kind = "pending"
        THEN [ready |-> FALSE, out |-> NoResult, pos |-> s.pos, buffer |-> buf]
        ELSE IF s.res.kind = "item"
        THEN IF s.res.item.ok
             THEN CollectLoopPullsOn(s.pos, buf \o s.res.item.text)
             ELSE [ready |-> TRUE, out |-> Err(s.res.item.err),
                   pos |-> SourcePollNext(s.pos).pos, buffer |-> buf]
        ELSE [ready |-> TRUE, out |-> Ok(buf), pos |-> s.pos, buffer |-> <<>>]

RECURSIVE CollectLoopForgets(_, _)
\* A variant that gives up the accumulated text when the source is not ready.
CollectLoopForgets(p, buf) ==
    LET s == SourcePollNext(p)
    IN  IF s.res.kind = "pending"
        THEN [ready |-> FALSE, out |-> NoResult, pos |-> s.pos, buffer |-> <<>>]
        ELSE IF s.res.kind = "item"
        THEN IF s.res.item.ok
             THEN CollectLoopForgets(s.pos, buf \o s.res.item.text)
             ELSE [ready |-> TRUE, out |-> Err(s.res.item.err), pos |-> s.pos,
                   buffer |-> buf]
        ELSE [ready |-> TRUE, out |-> Ok(buf), pos |-> s.pos, buffer |-> <<>>]

RECURSIVE CollectLoopBuffersError(_, _)
\* A variant that also writes the message of a failed chunk into the buffer.
CollectLoopBuffersError(p, buf) ==
    LET s == SourcePollNext(p)
    IN  IF s.res.kind = "pending"
        THEN [ready |-> FALSE, out |-> NoResult, pos |-> s.pos, buffer |-> buf]
        ELSE IF s.res.kind = "item"
        THEN IF s.res.item.ok
             THEN CollectLoopBuffersError(s.pos, buf \o s.res.item.text)
             ELSE [ready |-> TRUE, out |-> Err(s.res.item.err), pos |-> s.pos,
                   buffer |-> buf \o <<s.res.item.err>>]
        ELSE [ready |-> TRUE, out |-> Ok(buf), pos |-> s.pos, buffer |-> <<>>]

RECURSIVE CollectLoopStalls(_, _)
\* A variant that reports pending at an empty chunk and leaves it in the source.
CollectLoopStalls(p, buf) ==
    LET s == SourcePollNext(p)
    IN  IF s.res.kind = "pending"
        THEN [ready |-> FALSE, out |-> NoResult, pos |-> s.pos, buffer |-> buf]
        ELSE IF s.res.kind = "item"
        THEN IF s.res.item.ok
             THEN IF s.res.item.text = <<>>
                  THEN [ready |-> FALSE, out |-> NoResult, pos |-> p, buffer |-> buf]
                  ELSE CollectLoopStalls(s.pos, buf \o s.res.item.text)
             ELSE [ready |-> TRUE, out |-> Err(s.res.item.err), pos |-> s.pos,
                   buffer |-> buf]
        ELSE [ready |-> TRUE, out |-> Ok(buf), pos |-> s.pos, buffer |-> <<>>]

RECURSIVE CollectLoop(_, _)
CollectLoop(p, buf) ==
    LET s == SourcePollNext(p)
    IN  IF s.res.kind = "pending"
        THEN [ready |-> FALSE, out |-> NoResult, pos |-> s.pos, buffer |-> buf]
        ELSE IF s.res.kind = "item"
        THEN IF s.res.item.ok
             THEN CollectLoop(s.pos, buf \o s.res.item.text)
             ELSE [ready |-> TRUE, out |-> Err(s.res.item.err), pos |-> s.pos,
                   buffer |-> buf]
        ELSE [ready |-> TRUE, out |-> Ok(buf), pos |-> s.pos, buffer |-> <<>>]

Poll ==
    /\ mode = "future"
    /\ LET r == CollectLoop(pos, buffer)
       IN  /\ pos' = r.pos
           /\ buffer' = r.buffer
           /\ lastPoll' = IF r.ready THEN "ready" ELSE "pending"
           /\ result' = IF r.ready THEN r.out ELSE result
           /\ mode' = IF r.ready THEN "done" ELSE "future"
           \* every item S yielded to the loop, and the None that ended it
           /\ pulls' = pulls + (r.pos - pos) + (IF r.ready /\ r.out.ok THEN 1 ELSE 0)
    /\ UNCHANGED <<source, avail, delivered, startPos>>
    /\ UNCHANGED <<toolVars, gen, inFlight, peer>>

----------------------------------------------------------------------------
(* Tools and the values that pass through the registry (tool.rs) *)

\* The types that implement Tool: the Calculator of the Tool documentation
\* (tool.rs 27-49), and the Calculator and Greeter of the tests.
ToolTypes == {"DocCalculator", "Calculator", "Greeter"}

\* Tool::NAME
NAME(T) == IF T = "Greeter" THEN "greeter" ELSE "calculator"

\* Tool::DESCRIPTION
DESCRIPTION(T) ==
    IF T = "Greeter" THEN "Greets a person by name"
    ELSE "Performs basic mathematical operations"

\* Tool::Arguments
Arguments(T) == IF T = "Greeter" THEN "GreetArgs" ELSE "CalculatorArgs"

\* The names a caller passes to call and unregister.
Names == {"calculator", "greeter", "missing"}

\* Ord for the keys of the map: the byte order of the names.
KeyRank(k) == CASE k = "calculator" -> 1 [] k = "greeter" -> 2 [] OTHER -> 3

\* The argument texts a caller passes to call.
ArgAdd == "{\"operation\": \"add\", \"a\": 5, \"b\": 3}"
ArgDivZero == "{\"operation\": \"divide\", \"a\": 10, \"b\": 0}"
ArgModulo == "{\"operation\": \"modulo\", \"a\": 10, \"b\": 3}"
ArgName == "{\"name\": \"Alice\"}"
ArgEmpty == "{}"
ArgInvalid == "invalid json"
ArgTexts == {ArgAdd, ArgDivZero, ArgModulo, ArgName, ArgEmpty, ArgInvalid}

NoArgs == [operation |-> "-", a |-> 0, b |-> 0, name |-> "-"]
CalcArgs(op, x, y) == [operation |-> op, a |-> x, b |-> y, name |-> "-"]
GreetArgs(n) == [operation |-> "-", a |-> 0, b |-> 0, name |-> n]

\* serde_json::from_str::<T::Arguments>(&args) on the texts above: the value,
\* or the category of serde_json's error.
Decode(argsType, text) ==
    IF text = ArgInvalid THEN [ok |-> FALSE, value |-> NoArgs, diag |-> "syntax"]
    ELSE IF argsType = "CalculatorArgs" THEN
        CASE text = ArgAdd -> [ok |-> TRUE, value |-> CalcArgs("add", 5, 3), diag |-> "-"]
          [] text = ArgDivZero -> [ok |-> TRUE, value |-> CalcArgs("divide", 10, 0), diag |-> "-"]
          [] text = ArgModulo -> [ok |-> TRUE, value |-> CalcArgs("modulo", 10, 3), diag |-> "-"]
          [] OTHER -> [ok |-> FALSE, value |-> NoArgs, diag |-> "missing field operation"]
    ELSE
        CASE text = ArgName -> [ok |-> TRUE, value |-> GreetArgs("Alice"), diag |-> "-"]
          [] OTHER -> [ok |-> FALSE, value |-> NoArgs, diag |-> "missing field name"]

\* f64::to_string on the whole numbers the calculators produce here.
F64ToString(x) ==
    <<"0", "1", "2", "3", "4", "5", "6", "7", "8", "9", "10", "11", "12", "13">>[x + 1]

\* A tool instance: its type, its identity, and its own state (the number of
\* times its body ran; Tool::call takes &mut self).
NewTool(T, id) == [type |-> T, id |-> id, calls |-> 0]

\* Tool::call, the body (tool.rs 34-48, 220-237, 252-254): the outcome and the
\* instance afterwards.
ToolCall(tool, arguments) ==
    LET after == [tool EXCEPT !.calls = @ + 1]
        out == IF tool.type = "Greeter"
               THEN [ok |-> TRUE, msg |-> <<"Hello, ", arguments.name, "!">>]
               ELSE CASE arguments.operation = "add" ->
                           [ok |-> TRUE, msg |-> <<F64ToString(arguments.a + arguments.b)>>]
                      [] arguments.operation = "divide" ->
                           IF arguments.b = 0
                           THEN [ok |-> FALSE, msg |-> <<"Division by zero">>]
                           ELSE [ok |-> TRUE,
                                 msg |-> <<F64ToString(arguments.a \div arguments.b)>>]
                      [] OTHER ->
                           IF tool.type = "DocCalculator"
                           THEN [ok |-> FALSE, msg |-> <<"Unknown operation">>]
                           ELSE [ok |-> FALSE,
                                 msg |-> <<"Unknown operation: ", arguments.operation>>]
    IN  [tool |-> after, ok |-> out.ok, msg |-> out.msg,
         kind |-> IF out.ok THEN "ok" ELSE "msg"]

\* What a call recorded about the body: which instance ran (0: none), the
\* arguments it was handed and what it returned.
NoBody == [ran |-> 0, arguments |-> NoArgs, ok |-> TRUE, msg |-> <<>>]

\* A variant that runs the body before looking at the decode result.
ToolImplCallRunsFirst(tool, args) ==
    LET d == Decode(Arguments(tool.type), args)
        r == ToolCall(tool, d.value)
    IN  IF ~d.ok
        THEN [tool |-> r.tool, ok |-> FALSE, kind |-> "serde_json::Error",
              msg |-> <<d.diag>>, body |-> NoBody]
        ELSE [tool |-> r.tool, ok |-> r.ok, kind |-> r.kind, msg |-> r.msg,
              body |-> [ran |-> tool.id, arguments |-> d.value, ok |-> r.ok, msg |-> r.msg]]

\* A variant that wraps the body's error in a message of its own.
ToolImplCallWraps(tool, args) ==
    LET d == Decode(Arguments(tool.type), args)
    IN  IF ~d.ok
        THEN [tool |-> tool, ok |-> FALSE, kind |-> "serde_json::Error",
              msg |-> <<d.diag>>, body |-> NoBody]
        ELSE LET r == ToolCall(tool, d.value)
             IN  [tool |-> r.tool, ok |-> r.ok, kind |-> r.kind,
                  msg |-> IF r.ok THEN r.msg ELSE <<"Tool failed: ">> \o r.msg,
                  body |-> [ran |-> tool.id, arguments |-> d.value, ok |-> r.ok,
                            msg |-> r.msg]]

\* impl ToolImpl for T: call (tool.rs 84-89): decode, then run the body.
ToolImplCall(tool, args) ==
    LET d == Decode(Arguments(tool.type), args)
    IN  IF ~d.ok
        THEN [tool |-> tool, ok |-> FALSE, kind |-> "serde_json::Error",
              msg |-> <<d.diag>>, body |-> NoBody]
        ELSE LET r == ToolCall(tool, d.value)
             IN  [tool |-> r.tool, ok |-> r.ok, kind |-> r.kind, msg |-> r.msg,
                  body |-> [ran |-> tool.id, arguments |-> d.value, ok |-> r.ok,
                            msg |-> r.msg]]

\* impl ToolImpl for T: definition (tool.rs 91-97)
ToolImplDefinition(tool) ==
    [name |-> NAME(tool.type), description |-> DESCRIPTION(tool.type),
     arguments |-> Arguments(tool.type)]

----------------------------------------------------------------------------
(* BTreeMap<String, Box<dyn ToolImpl>>: the entries, in key order *)

\* The index of key k's entry in m, 0 when there is none (get_mut).
BTreeGet(m, k) ==
    IF \E i \in 1..Len(m) : m[i].key = k
    THEN CHOOSE i \in 1..Len(m) : m[i].key = k
    ELSE 0

\* insert: the entry for k is replaced, or added at its place in key order.
BTreeInsert(m, k, v) ==
    LET Before(e) == KeyRank(e.key) < KeyRank(k)
        After(e) == KeyRank(e.key) > KeyRank(k)
    IN  SelectSeq(m, Before) \o <<[key |-> k, tool |-> v]>> \o SelectSeq(m, After)

\* remove
BTreeRemove(m, k) ==
    LET Other(e) == e.key # k
    IN  SelectSeq(m, Other)

----------------------------------------------------------------------------
(* Tools (tool.rs 156-197) *)

ToolsNew == <<>>

\* Tools::definitions
Definitions == [i \in 1..Len(tools) |-> ToolImplDefinition(tools[i].tool)]

NoOp == [op |-> "none", name |-> "-", args |-> "-", ok |-> TRUE, kind |-> "ok",
         msg |-> <<>>, body |-> NoBody]

Unit(op, n) == [NoOp EXCEPT !.op = op, !.name = n]

NoHist == [n \in Names |-> [op |-> "none", id |-> 0]]

\* A variant that keeps the entry already registered under the name.
RegisterKeepsOld(T) ==
    /\ nextId <= MaxRegs
    /\ tools' = IF BTreeGet(tools, NAME(T)) # 0 THEN tools
                ELSE BTreeInsert(tools, NAME(T), NewTool(T, nextId))
    /\ nextId' = nextId + 1
    /\ lastOp' = Unit("register", NAME(T))
    /\ hist' = [hist EXCEPT ![NAME(T)] = [op |-> "register", id |-> nextId]]
    /\ UNCHANGED <<streamVars, gen>>

\* A variant that keeps the tools in the order they were registered in.
RegisterAppends(T) ==
    /\ nextId <= MaxRegs
    /\ tools' = BTreeRemove(tools, NAME(T)) \o <<[key |-> NAME(T), tool |-> NewTool(T, nextId)]>>
    /\ nextId' = nextId + 1
    /\ lastOp' = Unit("register", NAME(T))
    /\ hist' = [hist EXCEPT ![NAME(T)] = [op |-> "register", id |-> nextId]]
    /\ UNCHANGED <<streamVars, gen>>

\* Tools::register.  MaxRegs instances are registered at most.
Register(T) ==
    /\ nextId <= MaxRegs
    /\ tools' = BTreeInsert(tools, NAME(T), NewTool(T, nextId))
    /\ nextId' = nextId + 1
    /\ lastOp' = Unit("register", NAME(T))
    /\ hist' = [hist EXCEPT ![NAME(T)] = [op |-> "register", id |-> nextId]]
    /\ UNCHANGED <<streamVars, gen>>

\* A variant that looks the entry up and leaves it where it is.
UnregisterLeaves(name) ==
    /\ tools' = tools
    /\ lastOp' = Unit("unregister", name)
    /\ hist' = [hist EXCEPT ![name] = [op |-> "unregister", id |-> 0]]
    /\ UNCHANGED <<nextId, streamVars, gen>>

\* A variant that, finding the name, removes the first entry of the map.
UnregisterFirst(name) ==
    /\ tools' = IF BTreeGet(tools, name) # 0 THEN Tail(tools) ELSE tools
    /\ lastOp' = Unit("unregister", name)
    /\ hist' = [hist EXCEPT ![name] = [op |-> "unregister", id |-> 0]]
    /\ UNCHANGED <<nextId, streamVars, gen>>

\* Tools::unregister
Unregister(name) ==
    /\ tools' = BTreeRemove(tools, name)
    /\ lastOp' = Unit("unregister", name)
    /\ hist' = [hist EXCEPT ![name] = [op |-> "unregister", id |-> 0]]
    /\ UNCHANGED <<nextId, streamVars, gen>>

\* The error of Tools::call for a name with no entry.
NotFound(name) == <<"Tool '", name, "' not found">>

\* A variant whose message does not carry the name.
CallAnonymousError(name, args) ==
    LET i == BTreeGet(tools, name)
    IN  /\ i # 0 => tools[i].tool.calls < MaxCalls
        /\ IF i # 0
           THEN LET r == ToolImplCall(tools[i].tool, args)
                IN  /\ tools' = [tools EXCEPT ![i].tool = r.tool]
                    /\ lastOp' = [op |-> "call", name |-> name, args |-> args,
                                  ok |-> r.ok, kind |-> r.kind, msg |-> r.msg,
                                  body |-> r.body]
           ELSE /\ tools' = tools
                /\ lastOp' = [op |-> "call", name |-> name, args |-> args,
                              ok |-> FALSE, kind |-> "msg", msg |-> <<"Tool not found">>,
                              body |-> NoBody]
        /\ UNCHANGED <<nextId, hist, streamVars, gen>>

\* A variant that runs the tool on a copy and leaves the registered one as it was.
CallOnCopy(name, args) ==
    LET i == BTreeGet(tools, name)
    IN  /\ i # 0 => tools[i].tool.calls < MaxCalls
        /\ IF i # 0
           THEN LET r == ToolImplCall(tools[i].tool, args)
                IN  /\ tools' = tools
                    /\ lastOp' = [op |-> "call", name |-> name, args |-> args,
                                  ok |-> r.ok, kind |-> r.kind, msg |-> r.msg,
                                  body |-> r.body]
           ELSE /\ tools' = tools
                /\ lastOp' = [op |-> "call", name |-> name, args |-> args,
                              ok |-> FALSE, kind |-> "msg", msg |-> NotFound(name),
                              body |-> NoBody]
        /\ UNCHANGED <<nextId, hist, streamVars, gen>>

\* A variant that drops a tool whose call failed from the registry.
CallDropsFailed(name, args) ==
    LET i == BTreeGet(tools, name)
    IN  /\ i # 0 => tools[i].tool.calls < MaxCalls
        /\ IF i # 0
           THEN LET r == ToolImplCall(tools[i].tool, args)
                IN  /\ tools' = IF r.ok THEN [tools EXCEPT ![i].tool = r.tool]
                                ELSE BTreeRemove(tools, name)
                    /\ lastOp' = [op |-> "call", name |-> name, args |-> args,
                                  ok |-> r.ok, kind |-> r.kind, msg |-> r.msg,
                                  body |-> r.body]
           ELSE /\ tools' = tools
                /\ lastOp' = [op |-> "call", name |-> name, args |-> args,
                              ok |-> FALSE, kind |-> "msg", msg |-> NotFound(name),
                              body |-> NoBody]
        /\ UNCHANGED <<nextId, hist, streamVars, gen>>

\* A variant that, finding no entry for the name, falls back on the first tool.
CallFallsBack(name, args) ==
    LET j == BTreeGet(tools, name)
        i == IF j = 0 /\ tools # <<>> THEN 1 ELSE j
    IN  /\ i # 0 => tools[i].tool.calls < MaxCalls
        /\ IF i # 0
           THEN LET r == ToolImplCall(tools[i].tool, args)
                IN  /\ tools' = [tools EXCEPT ![i].tool = r.tool]
                    /\ lastOp' = [op |-> "call", name |-> name, args |-> args,
                                  ok |-> r.ok, kind |-> r.kind, msg |-> r.msg,
                                  body |-> r.body]
           ELSE /\ tools' = tools
                /\ lastOp' = [op |-> "call", name |-> name, args |-> args,
                              ok |-> FALSE, kind |-> "msg", msg |-> NotFound(name),
                              body |-> NoBody]
        /\ UNCHANGED <<nextId, hist, streamVars, gen>>

\* Tools::call, from the lookup to the value the returned future resolves to.
\* An instance is followed until its body has run MaxCalls times.
Call(name, args) ==
    LET i == BTreeGet(tools, name)
    IN  /\ i # 0 => tools[i].tool.calls < MaxCalls
        /\ IF i # 0
           THEN LET r == ToolImplCall(tools[i].tool, args)
                IN  /\ tools' = [tools EXCEPT ![i].tool = r.tool]
                    /\ lastOp' = [op |-> "call", name |-> name, args |-> args,
                                  ok |-> r.ok, kind |-> r.kind, msg |-> r.msg,
                                  body |-> r.body]
           ELSE /\ tools' = tools
                /\ lastOp' = [op |-> "call", name |-> name, args |-> args,
                              ok |-> FALSE, kind |-> "msg", msg |-> NotFound(name),
                              body |-> NoBody]
        /\ UNCHANGED <<nextId, hist, streamVars, gen>>

----------------------------------------------------------------------------
(* generate, categorize and summarize (llm/mod.rs 477-527) *)

\* Message::system, Message::user (message.rs 233-253); a content is a
\* sequence of pieces of text.
System(content) == [role |-> "system", content |-> content]
User(content) == [role |-> "user", content |-> content]

\* oneshot (mod.rs 224-226)
Oneshot(system, user) == <<System(<<system>>), User(<<user>>)>>

\* Request::new (mod.rs 294-300)
RequestNew(messages) ==
    [messages |-> messages, tools |-> "Tools::default()",
     parameters |-> "Parameters::default()"]

NoRequest == RequestNew(<<>>)

\* The requests a caller hands to generate, and the texts it hands to
\* categorize and summarize.
Conversations ==
    {<<>>, <<User(<<"Hello">>)>>, Oneshot("Extract weather information", "22 C and sunny")}
Requests ==
    {RequestNew(m) : m \in Conversations}
    \cup {[messages |-> m, tools |-> "Tools with calculator",
           parameters |-> "temperature(0.7)"] : m \in Conversations}
Docs == {"doc A", "doc B"}

\* json(&schema_for!(T)), for the target shape T = {message: String, count: i32}
Schema == "schema of {message, count}"

\* The instruction of generate (mod.rs 483-499): the text before {schema},
\* the schema, the text after it.
Prompt ==
    <<"You must respond with valid JSON that strictly conforms to the following JSON schema:",
      Schema,
      "Requirements: ... Generate the JSON response now:">>

\* A variant that puts the instruction in front of the conversation.
GenerateRequestInstructsFirst(request) ==
    [request EXCEPT !.messages = <<System(Prompt)>> \o @]

\* request.messages.push(Message::system(prompt)) (mod.rs 501)
GenerateRequest(request) ==
    [request EXCEPT !.messages = Append(@, System(Prompt))]

\* A variant that sends the user's text alone.
CategorizeRequestBare(text) == RequestNew(<<User(<<text>>)>>)

\* The request categorize hands to generate (mod.rs 525)
CategorizeRequest(text) == RequestNew(Oneshot("Categorize text by provided schema", text))

\* A variant that builds the request as generate does, schema instruction included.
SummarizeRequestWithSchema(text) == GenerateRequest(RequestNew(Oneshot("Summarize text:", text)))

\* The request of summarize (mod.rs 516)
SummarizeRequest(text) == RequestNew(Oneshot("Summarize text:", text))

\* The text a backend streams, in the pieces it may be cut into.
JsonHead == "{\"message\":\"test\","
JsonTail == "\"count\":42}"
JsonPieces == {JsonHead, JsonTail}

GenMaxItems == 2
GenMaxPieces == 2

GenTexts == UNION {[1..n -> JsonPieces] : n \in 0..GenMaxPieces}
GenItems == {Ok(t) : t \in GenTexts} \cup {Err(e) : e \in Errors}
GenSources == UNION {[1..n -> GenItems] : n \in 0..GenMaxItems}

\* crate::Result<T>: a value, or an anyhow::Error made from the error of the
\* given kind; carries is what that error holds.
NoValue == [message |-> "-", count |-> 0]
NoGenOut == [ok |-> FALSE, value |-> NoValue, kind |-> "unset", carries |-> {}]
GenOk(v) == [ok |-> TRUE, value |-> v, kind |-> "ok", carries |-> {}]
GenErr(kind, what) == [ok |-> FALSE, value |-> NoValue, kind |-> kind, carries |-> {what}]

\* serde_json::from_str::<T>(&response) on the texts above: the value, or the
\* category of serde_json's error.
Parse(text) ==
    IF text = <<JsonHead, JsonTail>>
    THEN [ok |-> TRUE, value |-> [message |-> "test", count |-> 42], diag |-> "-"]
    ELSE [ok |-> FALSE, value |-> NoValue,
          diag |-> IF text = <<>> THEN "EOF while parsing a value"
                   ELSE IF text[1] = JsonTail THEN "invalid type: string, expected struct"
                   ELSE IF Len(text) = 1 THEN "EOF while parsing an object"
                   ELSE IF text[2] = JsonHead THEN "key must be a string"
                   ELSE "trailing characters"]

\* let value: T = serde_json::from_str(&response)?; Ok(value) (mod.rs 507-509)
ParseResponse(response) ==
    IF Parse(response).ok THEN GenOk(Parse(response).value)
    ELSE GenErr("serde_json::Error", <<Parse(response).diag>>)

RECURSIVE TryFoldLoopReturnsPartial(_, _)
\* A variant that ends the fold at a failed chunk with what it has.
TryFoldLoopReturnsPartial(p, acc) ==
    LET s == SourcePollNext(p)
    IN  IF s.res.kind = "pending"
        THEN [ready |-> FALSE, ok |-> FALSE, err |-> "-", pos |-> s.pos, acc |-> acc]
        ELSE IF s.res.kind = "item"
        THEN IF s.res.item.ok
             THEN TryFoldLoopReturnsPartial(s.pos, acc \o s.res.item.text)
             ELSE [ready |-> TRUE, ok |-> TRUE, err |-> "-", pos |-> s.pos, acc |-> acc]
        ELSE [ready |-> TRUE, ok |-> TRUE, err |-> "-", pos |-> s.pos, acc |-> acc]

RECURSIVE TryFoldLoopKeepsLast(_, _)
\* A variant whose closure returns the new chunk instead of state + &new.
TryFoldLoopKeepsLast(p, acc) ==
    LET s == SourcePollNext(p)
    IN  IF s.res.kind = "pending"
        THEN [ready |-> FALSE, ok |-> FALSE, err |-> "-", pos |-> s.pos, acc |-> acc]
        ELSE IF s.res.kind = "item"
        THEN IF s.res.item.ok
             THEN TryFoldLoopKeepsLast(s.pos, s.res.item.text)
             ELSE [ready |-> TRUE, ok |-> FALSE, err |-> s.res.item.err, pos |-> s.pos,
                   acc |-> acc]
        ELSE [ready |-> TRUE, ok |-> TRUE, err |-> "-", pos |-> s.pos, acc |-> acc]

RECURSIVE TryFoldLoopPullsOn(_, _)
\* A variant that pulls the source once more after a failed chunk.
TryFoldLoopPullsOn(p, acc) ==
    LET s == SourcePollNext(p)
    IN  IF s.res.kind = "pending"
        THEN [ready |-> FALSE, ok |-> FALSE, err |-> "-", pos |-> s.pos, acc |-> acc]
        ELSE IF s.res.kind = "item"
        THEN IF s.res.item.ok
             THEN TryFoldLoopPullsOn(s.pos, acc \o s.res.item.text)
             ELSE [ready |-> TRUE, ok |-> FALSE, err |-> s.res.item.err,
                   pos |-> SourcePollNext(s.pos).pos, acc |-> acc]
        ELSE [ready |-> TRUE, ok |-> TRUE, err |-> "-", pos |-> s.pos, acc |-> acc]

RECURSIVE TryFoldLoop(_, _)
\* .try_fold(String::new(), |state, new| Ok(state + &new)) (mod.rs 504), one
\* poll of it: it folds until the source is pending, fails or ends.
TryFoldLoop(p, acc) ==
    LET s == SourcePollNext(p)
    IN  IF s.res.kind = "pending"
        THEN [ready |-> FALSE, ok |-> FALSE, err |-> "-", pos |-> s.pos, acc |-> acc]
        ELSE IF s.res.kind = "item"
        THEN IF s.res.item.ok
             THEN TryFoldLoop(s.pos, acc \o s.res.item.text)
             ELSE [ready |-> TRUE, ok |-> FALSE, err |-> s.res.item.err, pos |-> s.pos,
                   acc |-> acc]
        ELSE [ready |-> TRUE, ok |-> TRUE, err |-> "-", pos |-> s.pos, acc |-> acc]

\* No call of generate, categorize or summarize has been made.
NoGen == [entry |-> "none", state |-> "idle", input |-> NoRequest, text |-> "-",
          sent |-> <<>>, acc |-> <<>>, parsed |-> <<>>, out |-> NoGenOut]

\* A caller has made the future of generate(request) or categorize(text), or
\* is about to call summarize(text).
GenCalls ==
    {[NoGen EXCEPT !.entry = "generate", !.state = "new", !.input = r] : r \in Requests}
    \cup {[NoGen EXCEPT !.entry = e, !.state = "new", !.text = t] :
             e \in {"categorize", "summarize"}, t \in Docs}

\* One poll of the future of generate (mod.rs 477-510), reached directly or
\* through categorize (520-527).  The first poll builds the request and hands
\* it to respond; every poll drives the fold, and the poll on which the fold
\* is ready ends with the parse.
GeneratePoll ==
    /\ gen.entry \in {"generate", "categorize"}
    /\ gen.state \in {"new", "folding"}
    /\ LET request == IF gen.entry = "generate" THEN gen.input
                      ELSE CategorizeRequest(gen.text)
           r == TryFoldLoop(pos, IF gen.state = "new" THEN <<>> ELSE gen.acc)
       IN  /\ gen' = [gen EXCEPT
                        !.sent = IF gen.state = "new"
                                 THEN Append(@, GenerateRequest(request)) ELSE @,
                        !.state = IF r.ready THEN "done" ELSE "folding",
                        !.acc = r.acc,
                        !.parsed = IF r.ready /\ r.ok THEN Append(@, r.acc) ELSE @,
                        !.out = IF ~r.ready THEN NoGenOut
                                ELSE IF ~r.ok THEN GenErr("M::Error", <<r.err>>)
                                ELSE ParseResponse(r.acc)]
           /\ pos' = r.pos
           /\ pulls' = pulls + (r.pos - pos) + (IF r.ready /\ r.ok THEN 1 ELSE 0)
           /\ lastPoll' = IF r.ready THEN "ready" ELSE "pending"
    /\ UNCHANGED <<source, avail, mode, buffer, delivered, result, startPos>>
    /\ UNCHANGED <<toolVars, inFlight, peer>>

\* summarize (mod.rs 512-518): the request is built and handed to respond,
\* whose stream is returned.
Summarize ==
    /\ gen.entry = "summarize"
    /\ gen.state = "new"
    /\ gen' = [gen EXCEPT !.sent = Append(@, SummarizeRequest(gen.text)),
                          !.state = "streaming"]
    /\ UNCHANGED <<streamVars, toolVars, inFlight>>

\* The caller pulls the stream summarize returned: the backend's own stream.
\* Pulls after the end are followed for two more results.
SummarizePull ==
    /\ gen.entry = "summarize"
    /\ gen.state = "streaming"
    /\ Len(delivered) < Len(source) + 2
    /\ LET r == SourcePollNext(pos)
       IN  /\ pos' = r.pos
           /\ lastPoll' = r.res.kind
           /\ delivered' = IF r.res.kind = "pending" THEN delivered
                           ELSE Append(delivered, r.res)
           /\ pulls' = pulls + (IF r.res.kind = "pending" THEN 0 ELSE 1)
    /\ UNCHANGED <<source, avail, mode, buffer, result, startPos>>
    /\ UNCHANGED <<toolVars, gen, inFlight, peer>>

GenInit ==
    /\ source \in GenSources
    /\ avail = 0
    /\ pos = 0
    /\ mode = "stream"
    /\ buffer = <<>>
    /\ delivered = <<>>
    /\ lastPoll = "none"
    /\ result = NoResult
    /\ startPos = 0
    /\ pulls = 0
    /\ peer = NoPeer
    /\ gen \in GenCalls
    /\ inFlight = {}
    /\ tools = ToolsNew
    /\ nextId = 1
    /\ lastOp = NoOp
    /\ hist = NoHist

GenNext == SourceReady \/ GeneratePoll \/ Summarize \/ SummarizePull

GenSpec == GenInit /\ [][GenNext]_vars

----------------------------------------------------------------------------
(* The stream adapter alone *)

StreamInit ==
    /\ source \in Sources
    /\ avail = 0
    /\ pos = 0
    /\ mode = "stream"
    /\ buffer = <<>>
    /\ delivered = <<>>
    /\ lastPoll = "none"
    /\ result = NoResult
    /\ startPos = 0
    /\ pulls = 0
    /\ peer = NoPeer
    /\ gen = NoGen
    /\ inFlight = {}
    /\ tools = ToolsNew
    /\ nextId = 1
    /\ lastOp = NoOp
    /\ hist = NoHist

StreamNext == SourceReady \/ PollNext \/ IntoFuture \/ Poll

StreamSpec == StreamInit /\ [][StreamNext]_vars

----------------------------------------------------------------------------
(* Two adapters.  The second one is a TextStreamAdapter of its own, made by *)
(* another call of text_stream (stream.rs 196-202) on another source: the   *)
(* record `peer` holds its fields and its source.  Its operations are the   *)
(* ones above, read on that record.                                         *)

\* A variant in which the second adapter polls the source of the first.
PeerSourcePollNextShared(s, p) ==
    IF p >= avail THEN [res |-> Pending, pos |-> p]
    ELSE IF p < Len(source) THEN [res |-> ReadySome(source[p + 1]), pos |-> p + 1]
    ELSE [res |-> ReadyNone, pos |-> p]

\* The source of the second adapter (as SourcePollNext).
PeerSourcePollNext(s, p) ==
    IF p >= s.avail THEN [res |-> Pending, pos |-> p]
    ELSE IF p < Len(s.source) THEN [res |-> ReadySome(s.source[p + 1]), pos |-> p + 1]
    ELSE [res |-> ReadyNone, pos |-> p]

PeerReady ==
    /\ peer.mode # "none"
    /\ peer.avail <= Len(peer.source)
    /\ peer' = [peer EXCEPT !.avail = @ + 1]
    /\ UNCHANGED <<source, avail, pos, mode, buffer, delivered, lastPoll, result, startPos, pulls>>
    /\ UNCHANGED <<toolVars, gen, inFlight>>

\* Stream::poll_next of the second adapter (stream.rs 104-106)
PeerPollNext ==
    /\ peer.mode = "stream"
    /\ Len(peer.delivered) < Len(peer.source) + 2
    /\ LET r == PeerSourcePollNext(peer, peer.pos)
       IN  peer' = [peer EXCEPT
                      !.pos = r.pos,
                      !.delivered = IF r.res.kind = "pending" THEN @ ELSE Append(@, r.res)]
    /\ UNCHANGED <<source, avail, pos, mode, buffer, delivered, lastPoll, result, startPos, pulls>>
    /\ UNCHANGED <<toolVars, gen, inFlight>>

\* IntoFuture::into_future of the second adapter (stream.rs 121-126)
PeerIntoFuture ==
    /\ peer.mode = "stream"
    /\ peer' = [peer EXCEPT !.mode = "future", !.buffer = <<>>, !.startPos = peer.pos]
    /\ UNCHANGED <<source, avail, pos, mode, buffer, delivered, lastPoll, result, startPos, pulls>>
    /\ UNCHANGED <<toolVars, gen, inFlight>>

RECURSIVE PeerCollectLoop(_, _, _)
\* The loop of Future::poll on the second adapter (as CollectLoop).
PeerCollectLoop(s, p, buf) ==
    LET q == PeerSourcePollNext(s, p)
    IN  IF q.res.kind = "pending"
        THEN [ready |-> FALSE, out |-> NoResult, pos |-> q.pos, buffer |-> buf]
        ELSE IF q.res.kind = "item"
        THEN IF q.res.item.ok
             THEN PeerCollectLoop(s, q.pos, buf \o q.res.item.text)
             ELSE [ready |-> TRUE, out |-> Err(q.res.item.err), pos |-> q.pos,
                   buffer |-> buf]
        ELSE [ready |-> TRUE, out |-> Ok(buf), pos |-> q.pos, buffer |-> <<>>]

\* Future::poll of the second adapter's collect operation (stream.rs 144-163)
PeerPoll ==
    /\ peer.mode = "future"
    /\ LET r == PeerCollectLoop(peer, peer.pos, peer.buffer)
       IN  peer' = [peer EXCEPT
                      !.pos = r.pos,
                      !.buffer = r.buffer,
                      !.result = IF r.ready THEN r.out ELSE @,
                      !.mode = IF r.ready THEN "done" ELSE "future"]
    /\ UNCHANGED <<source, avail, pos, mode, buffer, delivered, lastPoll, result, startPos, pulls>>
    /\ UNCHANGED <<toolVars, gen, inFlight>>

\* The two sources are independent: they share no chunk and no error.
PairMaxItems == 2

PairItems == {Ok(<<"a">>), Err("E1")}
PairSources == UNION {[1..n -> PairItems] : n \in 0..PairMaxItems}
PeerItems == {Ok(<<"b">>), Err("E2")}
PeerSources == UNION {[1..n -> PeerItems] : n \in 0..PairMaxItems}

PairInit ==
    /\ source \in PairSources
    /\ avail = 0
    /\ pos = 0
    /\ mode = "stream"
    /\ buffer = <<>>
    /\ delivered = <<>>
    /\ lastPoll = "none"
    /\ result = NoResult
    /\ startPos = 0
    /\ pulls = 0
    /\ peer \in {[NoPeer EXCEPT !.mode = "stream", !.source = s] : s \in PeerSources}
    /\ gen = NoGen
    /\ inFlight = {}
    /\ tools = ToolsNew
    /\ nextId = 1
    /\ lastOp = NoOp
    /\ hist = NoHist

PairNext ==
    \/ SourceReady \/ PollNext \/ IntoFuture \/ Poll
    \/ PeerReady \/ PeerPollNext \/ PeerIntoFuture \/ PeerPoll

PairSpec == PairInit /\ [][PairNext]_vars

\* A variant whose destructor drains what the source has ready and, for a
\* collect operation, stores a result.
DropFlushes ==
    /\ mode \in {"stream", "future"}
    /\ mode' = "dropped"
    /\ pos' = CollectLoop(pos, buffer).pos
    /\ pulls' = pulls + (CollectLoop(pos, buffer).pos - pos)
    /\ result' = IF mode = "future" THEN Ok(CollectLoop(pos, buffer).buffer) ELSE result
    /\ UNCHANGED <<source, avail, buffer, delivered, lastPoll, startPos>>
    /\ UNCHANGED <<toolVars, gen, inFlight, peer>>

\* The owner drops the TextStreamAdapter, or the TextStreamAdapterFuture, before
\* it has completed (stream.rs 90-95, 129-135).  Neither struct has a
\* destructor of its own: its fields, the source and the buffer, are dropped.
\* The value is gone, so no operation of it is enabled afterwards.
Drop ==
    /\ mode \in {"stream", "future"}
    /\ mode' = "dropped"
    /\ UNCHANGED <<source, avail, pos, buffer, delivered, lastPoll, result, startPos, pulls>>
    /\ UNCHANGED <<toolVars, gen, inFlight, peer>>

CancelNext == SourceReady \/ PollNext \/ IntoFuture \/ Poll \/ Drop

CancelSpec == StreamInit /\ [][CancelNext]_vars

\* The stream adapter under the scheduling a collect operation runs with: the
\* source makes each of its poll results ready in the end, and the executor
\* polls the future again whenever a poll can make progress.  The sources
\* are those made of one chunk, the empty chunk and one error.
LiveMaxItems == 3

LiveItems == {Ok(<<"a">>), Ok(<<>>), Err("E1")}
LiveSources == UNION {[1..n -> LiveItems] : n \in 0..LiveMaxItems}

LiveInit ==
    /\ source \in LiveSources
    /\ avail = 0
    /\ pos = 0
    /\ mode = "stream"
    /\ buffer = <<>>
    /\ delivered = <<>>
    /\ lastPoll = "none"
    /\ result = NoResult
    /\ startPos = 0
    /\ pulls = 0
    /\ peer = NoPeer
    /\ gen = NoGen
    /\ inFlight = {}
    /\ tools = ToolsNew
    /\ nextId = 1
    /\ lastOp = NoOp
    /\ hist = NoHist

LiveSpec == LiveInit /\ [][StreamNext]_vars /\ WF_vars(SourceReady) /\ WF_vars(Poll)

----------------------------------------------------------------------------
(* The tool registry alone *)

ToolsInit ==
    /\ source = <<>>
    /\ avail = 0
    /\ pos = 0
    /\ mode = "stream"
    /\ buffer = <<>>
    /\ delivered = <<>>
    /\ lastPoll = "none"
    /\ result = NoResult
    /\ startPos = 0
    /\ pulls = 0
    /\ peer = NoPeer
    /\ gen = NoGen
    /\ inFlight = {}
    /\ tools = ToolsNew
    /\ nextId = 1
    /\ lastOp = NoOp
    /\ hist = NoHist

\* Each operation runs to its end before the next one starts.
ToolsNext ==
    \/ \E T \in ToolTypes : Register(T) /\ UNCHANGED inFlight
    \/ \E name \in Names : Unregister(name) /\ UNCHANGED inFlight
    \/ \E name \in Names, args \in ArgTexts : Call(name, args) /\ UNCHANGED inFlight

ToolsSpec == ToolsInit /\ [][ToolsNext]_vars

----------------------------------------------------------------------------
(* The registry shared by several callers.  Tools::call takes &mut self and *)
(* the future it returns keeps that borrow (tool.rs 79, 190: the '_ of the  *)
(* returned future) until it is awaited to its end or dropped; register and *)
(* unregister take &mut self too.  An operation whose borrow cannot be      *)
(* granted does not start.                                                  *)

Callers == {"c1", "c2"}

\* The argument texts the callers of this specification pass.
SharedArgTexts == {ArgAdd, ArgInvalid}

InFlightCall(c, name, args) == [caller |-> c, name |-> name, args |-> args]

\* A variant for a call that took &self: it starts beside the calls in flight.
CallBeginShared(c, name, args) ==
    /\ \A f \in inFlight : f.caller # c
    /\ inFlight' = inFlight \cup {InFlightCall(c, name, args)}
    /\ UNCHANGED <<toolVars, streamVars, gen>>

\* tools.call(name, args): the future is made, and borrows the registry.
CallBegin(c, name, args) ==
    /\ inFlight = {}
    /\ inFlight' = inFlight \cup {InFlightCall(c, name, args)}
    /\ UNCHANGED <<toolVars, streamVars, gen>>

\* The future is awaited to its end: the call runs, and the borrow ends.
CallReturn(c) ==
    \E f \in inFlight :
        /\ f.caller = c
        /\ Call(f.name, f.args)
        /\ inFlight' = inFlight \ {f}

\* The future is dropped before it ran: the borrow ends.
CallDrop(c) ==
    \E f \in inFlight :
        /\ f.caller = c
        /\ inFlight' = inFlight \ {f}
        /\ UNCHANGED <<toolVars, streamVars, gen>>

\* register and unregister, which need the registry unborrowed.
ExclusiveRegister(T) == inFlight = {} /\ Register(T) /\ UNCHANGED inFlight
ExclusiveUnregister(name) == inFlight = {} /\ Unregister(name) /\ UNCHANGED inFlight

SharedNext ==
    \/ \E c \in Callers, name \in Names, args \in SharedArgTexts : CallBegin(c, name, args)
    \/ \E c \in Callers : CallReturn(c)
    \/ \E c \in Callers : CallDrop(c)
    \/ \E T \in ToolTypes : ExclusiveRegister(T)
    \/ \E name \in Names : ExclusiveUnregister(name)

SharedSpec == ToolsInit /\ [][SharedNext]_vars

----------------------------------------------------------------------------
(* What the claims about the stream adapter compare the code against *)

RECURSIVE ConcatFrom(_, _)
\* The concatenation, in order, of the texts of items i.. of s.
ConcatFrom(s, i) == IF i > Len(s) THEN <<>> ELSE s[i].text \o ConcatFrom(s, i + 1)

AllOkFrom(s, i) == \A j \in i..Len(s) : s[j].ok

\* The position of the first error among items i.. of s (there is one).
FirstErrFrom(s, i) == CHOOSE k \in i..Len(s) : ~s[k].ok /\ \A j \in i..(k - 1) : s[j].ok

Min(a, b) == IF a < b THEN a ELSE b

\* The collect operation has returned on a stream that no lazy pull touched.
FreshCollectDone == mode = "done" /\ delivered = <<>> /\ startPos = 0

(* C1: collect mode on success. For every source whose items are all Ok    *)
(* (the empty source and empty-text chunks included), awaiting a fresh      *)
(* stream returns Ok(text), text being the concatenation of all chunks in   *)
(* source order; the empty source yields Ok("").                            *)
C1_CollectConcatenates ==
    (FreshCollectDone /\ AllOkFrom(source, 1)) =>
        /\ result = Ok(ConcatFrom(source, 1))
        /\ (source = <<>> => result = Ok(<<>>))

C1_Witness ==
    /\ FreshCollectDone
    /\ Len(source) = MaxItems
    /\ AllOkFrom(source, 1)
    /\ \E i \in 1..Len(source) : source[i].text = <<>>
    /\ \E i, j \in 1..Len(source) : i < j /\ source[i].text = <<"a">> /\ source[j].text = <<"b">>
    /\ result.ok /\ Len(result.text) = MaxItems - 1

(* C2: collect mode on failure. For every source whose first Err item E is  *)
(* at position k, awaiting a fresh stream returns Err(E) for exactly that   *)
(* E, and the result exposes none of the text of the chunks before it.      *)
C2_CollectFirstError ==
    (FreshCollectDone /\ ~AllOkFrom(source, 1)) =>
        LET k == FirstErrFrom(source, 1)
        IN  /\ ~result.ok
            /\ result.err = source[k].err
            /\ result.text = <<>>
            /\ pos = k

C2_Witness ==
    /\ FreshCollectDone
    /\ Len(source) >= 3
    /\ source[1].ok /\ source[1].text # <<>>
    /\ ~source[2].ok /\ ~source[3].ok /\ source[3].err # source[2].err
    /\ result = Err(source[2].err)
    /\ buffer = source[1].text

(* C3: lazy-sequence ordering. The i-th completed pull returns exactly the  *)
(* i-th item of the source (and "finished" past the last one): nothing is   *)
(* skipped, merged, duplicated or reordered, and an empty-text chunk is     *)
(* returned as its own Ok("") item.                                         *)
C3_LazyPullsInSourceOrder ==
    \A i \in 1..Len(delivered) :
        delivered[i] = IF i <= Len(source) THEN ReadySome(source[i]) ELSE ReadyNone

C3_Witness ==
    /\ mode = "stream"
    /\ Len(source) = MaxItems
    /\ Len(delivered) = MaxItems + 1
    /\ delivered[1] = ReadySome(Ok(<<"a">>))
    /\ delivered[2] = ReadySome(Ok(<<>>))
    /\ delivered[3] = ReadySome(Ok(<<"b">>))
    /\ delivered[MaxItems + 1] = ReadyNone

\* The positions of delivered, up to n, that hold an error.
DeliveredErrs(n) == {i \in 1..n : delivered[i].kind = "item" /\ ~delivered[i].item.ok}

(* C4: lazy-sequence error position. With the first error E the k-th item,  *)
(* lazy pulls 1..k-1 return the preceding Ok chunks unchanged and pull k    *)
(* returns Err(E); the chunks delivered before the error stay delivered,    *)
(* and each failing item surfaces exactly one error.                        *)
C4_LazyErrorAtItsPosition ==
    (~AllOkFrom(source, 1) /\ Len(delivered) >= FirstErrFrom(source, 1)) =>
        LET k == FirstErrFrom(source, 1)
            n == Min(Len(delivered), Len(source))
        IN  /\ \A i \in 1..(k - 1) : delivered[i] = ReadySome(Ok(source[i].text))
            /\ delivered[k] = ReadySome(Err(source[k].err))
            /\ DeliveredErrs(Len(delivered)) = {i \in 1..n : ~source[i].ok}

C4_Witness ==
    /\ mode = "stream"
    /\ Len(source) >= 3
    /\ Len(delivered) >= 3
    /\ delivered[1] = ReadySome(Ok(<<"a">>))
    /\ delivered[2] = ReadySome(Err("E1"))
    /\ delivered[3] = ReadySome(Ok(<<"b">>))

\* What collecting items j+1.. of the source gives.
CollectOf(j) ==
    IF AllOkFrom(source, j + 1) THEN Ok(ConcatFrom(source, j + 1))
    ELSE Err(source[FirstErrFrom(source, j + 1)].err)

(* C5: continuation semantics. After j lazy pulls, collecting on the same   *)
(* instance returns the concatenation of source items j+1..n only (or the   *)
(* first error among them): the j delivered chunks are not included again   *)
(* and the source is not restarted.                                         *)
C5_CollectContinues ==
    mode = "done" => result = CollectOf(Len(delivered))

C5_Witness ==
    /\ mode = "done"
    /\ Len(source) = MaxItems
    /\ Len(delivered) = 1
    /\ delivered[1] = ReadySome(Ok(<<"a">>))
    /\ result = Ok(<<"b", "a">>)

----------------------------------------------------------------------------
(* The claims about the tool registry.  A step whose lastOp' is a call is a *)
(* step of Call(lastOp'.name, lastOp'.args) taken from the unprimed state.  *)

\* The index, before the step, of the entry the call looks up.
Target == BTreeGet(tools, lastOp'.name)

\* The names definitions() lists, and how often it lists name n.
DefinedNames == {Definitions[i].name : i \in 1..Len(Definitions)}
TimesDefined(n) == Cardinality({i \in 1..Len(Definitions) : Definitions[i].name = n})

(* C6: call on a name that is not registered fails with a not-found error   *)
(* whose message contains the literal name passed in, and no tool body is   *)
(* invoked.                                                                 *)
C6_CallUnknownName ==
    [][(lastOp'.op = "call" /\ Target = 0) =>
          /\ ~lastOp'.ok
          /\ lastOp'.kind = "msg"
          /\ lastOp'.msg = <<"Tool '", lastOp'.name, "' not found">>
          /\ \E i \in 1..Len(lastOp'.msg) : lastOp'.msg[i] = lastOp'.name
          /\ lastOp'.body.ran = 0
          /\ tools' = tools]_vars

C6_Witness ==
    /\ lastOp.op = "call"
    /\ lastOp.name = "missing"
    /\ lastOp.args = ArgEmpty
    /\ Len(tools) = 2
    /\ ~lastOp.ok
    /\ lastOp.msg = <<"Tool '", "missing", "' not found">>

(* C7: call on a registered name with argument text that does not decode    *)
(* into the tool's argument type fails with an argument-decode error that   *)
(* carries the parser's diagnostic; the tool's body is not invoked for that *)
(* call: its invocation counter and its state stay as they were.            *)
C7_CallUndecodableArguments ==
    [][(/\ lastOp'.op = "call"
        /\ Target # 0
        /\ ~Decode(Arguments(tools[Target].tool.type), lastOp'.args).ok) =>
          /\ ~lastOp'.ok
          /\ lastOp'.kind = "serde_json::Error"
          /\ lastOp'.msg = <<Decode(Arguments(tools[Target].tool.type), lastOp'.args).diag>>
          /\ lastOp'.body.ran = 0
          /\ tools' = tools]_vars

C7_Witness ==
    /\ lastOp.op = "call"
    /\ lastOp.name = "calculator"
    /\ lastOp.args = ArgInvalid
    /\ lastOp.kind = "serde_json::Error"
    /\ BTreeGet(tools, "calculator") # 0
    /\ tools[BTreeGet(tools, "calculator")].tool.calls = 0

(* C8: call on a registered name with decodable arguments invokes that      *)
(* tool's body exactly once, with the decoded arguments, and returns the    *)
(* body's outcome unchanged: the same Ok text, or the same error (such as   *)
(* "Division by zero"), with nothing added by the registry.                 *)
C8_CallPassesThrough ==
    [][(/\ lastOp'.op = "call"
        /\ Target # 0
        /\ Decode(Arguments(tools[Target].tool.type), lastOp'.args).ok) =>
          LET before == tools[Target].tool
              calc == before.type \in {"Calculator", "DocCalculator"}
          IN  /\ lastOp'.body.ran = before.id
              /\ lastOp'.body.arguments = Decode(Arguments(before.type), lastOp'.args).value
              /\ Len(tools') = Len(tools)
              /\ tools'[Target].key = tools[Target].key
              /\ tools'[Target].tool = [before EXCEPT !.calls = before.calls + 1]
              /\ \A j \in 1..Len(tools) : j # Target => tools'[j] = tools[j]
              /\ lastOp'.ok = lastOp'.body.ok
              /\ lastOp'.msg = lastOp'.body.msg
              /\ lastOp'.kind = IF lastOp'.body.ok THEN "ok" ELSE "msg"
              /\ (calc /\ lastOp'.args = ArgDivZero) =>
                    (~lastOp'.ok /\ lastOp'.msg = <<"Division by zero">>)
              /\ (calc /\ lastOp'.args = ArgAdd) => (lastOp'.ok /\ lastOp'.msg = <<"8">>)
              /\ (~calc /\ lastOp'.args = ArgName) =>
                    (lastOp'.ok /\ lastOp'.msg = <<"Hello, ", "Alice", "!">>)]_vars

C8_Witness ==
    /\ lastOp.op = "call"
    /\ lastOp.name = "calculator"
    /\ lastOp.args = ArgDivZero
    /\ ~lastOp.ok
    /\ lastOp.msg = <<"Division by zero">>
    /\ lastOp.body.ran = 1
    /\ tools[BTreeGet(tools, "calculator")].tool.calls = 2
    /\ Len(tools) = 2

(* C9: registry uniqueness. After any sequence of register and unregister   *)
(* operations the registry holds at most one entry per name; registering    *)
(* under a name that is present replaces the old entry, so definitions()    *)
(* has that name exactly once and a later call(name) is dispatched to the   *)
(* most recently registered instance, never to the replaced one.            *)
C9_OneEntryPerName ==
    /\ \A i, j \in 1..Len(tools) : tools[i].key = tools[j].key => i = j
    /\ \A n \in Names : TimesDefined(n) <= 1
    /\ \A n \in Names : hist[n].op = "register" =>
          /\ TimesDefined(n) = 1
          /\ tools[BTreeGet(tools, n)].tool.id = hist[n].id
    /\ (lastOp.op = "call" /\ lastOp.body.ran # 0) =>
          lastOp.body.ran = hist[lastOp.name].id

C9_Witness ==
    /\ nextId = 3
    /\ hist["calculator"] = [op |-> "register", id |-> 2]
    /\ hist["greeter"].op = "none"
    /\ Len(Definitions) = 1
    /\ tools[1].tool.type = "Calculator"
    /\ lastOp.op = "call"
    /\ lastOp.body.ran = 2

(* C10: registry contents track the operation history. Starting from        *)
(* Tools::new() (empty, definitions() of length 0), after any sequence of   *)
(* register and unregister operations the set of names returned by          *)
(* definitions() is the set of names whose most recent operation was a      *)
(* register; register never fails.                                          *)
C10_DefinitionsTrackHistory ==
    /\ DefinedNames = {n \in Names : hist[n].op = "register"}
    /\ lastOp.op = "none" => Len(Definitions) = 0
    /\ lastOp.op = "register" => (lastOp.ok /\ lastOp.name \in DefinedNames)

C10_Witness ==
    /\ hist["calculator"].op = "unregister"
    /\ hist["greeter"].op = "register"
    /\ hist["missing"].op = "unregister"
    /\ Len(Definitions) = 1
    /\ Definitions[1].name = "greeter"
    /\ lastOp.op = "unregister"
    /\ lastOp.name = "calculator"

\* The entry registered under name n in map m, or none.
NoEntry == [key |-> "-", tool |-> [type |-> "-", id |-> 0, calls |-> 0]]
EntryOf(m, n) == IF BTreeGet(m, n) # 0 THEN m[BTreeGet(m, n)] ELSE NoEntry

(* C11: unregister(name) removes exactly the entry for that name when it is *)
(* present and leaves every other entry, and each other tool's state,       *)
(* unchanged; when the name is absent it reports no error and leaves the    *)
(* whole registry unchanged.                                                *)
C11_UnregisterRemovesOnlyItsName ==
    [][lastOp'.op = "unregister" =>
          /\ lastOp'.ok
          /\ EntryOf(tools', lastOp'.name) = NoEntry
          /\ \A n \in Names \ {lastOp'.name} : EntryOf(tools', n) = EntryOf(tools, n)
          /\ Len(tools') = Len(tools) - (IF Target # 0 THEN 1 ELSE 0)
          /\ (Target = 0 => tools' = tools)]_vars

C11_Witness ==
    /\ lastOp.op = "unregister"
    /\ lastOp.name = "calculator"
    /\ hist["calculator"].op = "unregister"
    /\ nextId = 3
    /\ Len(tools) = 1
    /\ tools[1].key = "greeter"
    /\ tools[1].tool.calls = 1

\* The names of definitions(), in the order it returns them.
DefinitionNames == [i \in 1..Len(Definitions) |-> Definitions[i].name]

(* C12: definitions() returns one entry per registered tool in ascending    *)
(* order of tool name, whatever order the tools were registered in; so two  *)
(* registries holding the same set of names return them in the same order.  *)
C12_DefinitionsInNameOrder ==
    /\ Len(Definitions) = Len(tools)
    /\ \A i \in 1..Len(tools) : Definitions[i].name = tools[i].key
    /\ \A i, j \in 1..Len(Definitions) :
          i < j => KeyRank(Definitions[i].name) < KeyRank(Definitions[j].name)

C12_Witness ==
    /\ DefinitionNames = <<"calculator", "greeter">>
    /\ tools[1].tool.id > tools[2].tool.id

(* C14: stateful tools. The registry keeps the same owned instance across   *)
(* calls: what a body changes during a call(name) is what the registry      *)
(* holds for the next call(name), no other step than an operation on that   *)
(* name changes it, and a call to one name never changes the state of a     *)
(* tool registered under a different name.                                  *)
C14_ToolStateKeptInPlace ==
    [][/\ \A n \in Names : lastOp'.name # n => EntryOf(tools', n) = EntryOf(tools, n)
       /\ (lastOp'.op = "call" /\ Target # 0) =>
             /\ EntryOf(tools', lastOp'.name).tool.id = tools[Target].tool.id
             /\ EntryOf(tools', lastOp'.name).tool.calls =
                   tools[Target].tool.calls + (IF lastOp'.body.ran # 0 THEN 1 ELSE 0)]_vars

C14_Witness ==
    /\ Len(tools) = 2
    /\ tools[1].tool.calls = 2
    /\ tools[2].tool.calls = 1
    /\ lastOp.op = "call"
    /\ lastOp.name = "calculator"
    /\ lastOp.ok

\* The Poll::Ready results the source returned to the collect operation.
CollectPulls == pulls - Len(delivered)

(* C20: at-most-once delivery and stop at the first error. In collect mode  *)
(* every source item is pulled at most once; the number of pulls is exactly *)
(* k when the first error is the k-th item (none is made after the error)   *)
(* and n+1 for an error-free source of n chunks; once collect has returned, *)
(* no further pull on the source is made.  After j lazy pulls the counts    *)
(* are those of the items that remain.                                      *)
C20_CollectPullCount ==
    /\ mode \in {"future", "done"} =>
          /\ startPos <= pos
          /\ pos - startPos <= CollectPulls
          /\ CollectPulls <= Len(source) - startPos + 1
    /\ mode = "done" =>
          IF AllOkFrom(source, startPos + 1)
          THEN /\ CollectPulls = (Len(source) - startPos) + 1
               /\ pos = Len(source)
          ELSE /\ CollectPulls = FirstErrFrom(source, startPos + 1) - startPos
               /\ pos = FirstErrFrom(source, startPos + 1)

C20_Witness ==
    /\ FreshCollectDone
    /\ Len(source) = MaxItems
    /\ source[1].ok /\ ~source[2].ok
    /\ avail = Len(source) + 1
    /\ pulls = 2
    /\ pos = 2

(* C13: on one registry instance two call operations are never in flight    *)
(* at the same time: a call holds exclusive access to the whole registry    *)
(* from its start until it returns, so that no other call, register or      *)
(* unregister on that instance interleaves with it.                         *)
C13_OneCallInFlight ==
    [][/\ Cardinality(inFlight') <= 1
       /\ inFlight # {} =>
             \/ UNCHANGED <<tools, nextId, lastOp, hist, inFlight>>
             \/ /\ inFlight' = {}
                /\ UNCHANGED <<tools, nextId, lastOp, hist>>
             \/ /\ inFlight' = {}
                /\ lastOp'.op = "call"
                /\ \E f \in inFlight : lastOp'.name = f.name /\ lastOp'.args = f.args
                /\ UNCHANGED <<nextId, hist>>]_vars

C13_Witness ==
    /\ inFlight = {InFlightCall("c2", "calculator", ArgAdd)}
    /\ lastOp.op = "call"
    /\ lastOp.name = "greeter"
    /\ Len(tools) = 2
    /\ tools[1].tool.calls = 1

\* The request the caller of generate supplied; for categorize, the one the
\* text stands for.
SuppliedRequest ==
    IF gen.entry = "generate" THEN gen.input
    ELSE RequestNew(Oneshot("Categorize text by provided schema", gen.text))

\* The future of generate has been polled at least once.
GenerateStarted == gen.entry \in {"generate", "categorize"} /\ gen.state # "new"

GenerateDone == gen.entry \in {"generate", "categorize"} /\ gen.state = "done"

\* A message is the schema instruction: a system message with the schema in it.
IsSchemaInstruction(m) ==
    /\ m.role = "system"
    /\ \E i \in 1..Len(m.content) : m.content[i] = Schema

(* C15: generate sends the backend exactly one request per call.  Its       *)
(* conversation is the caller's messages in their order followed by exactly *)
(* one more message, the instruction that contains the rendered schema; its *)
(* tools and parameters are the caller's.  Nothing is sent before the first *)
(* poll and nothing more after it, whatever the backend does.               *)
C15_GenerateSendsOneRequest ==
    gen.entry = "generate" =>
        /\ gen.state = "new" => gen.sent = <<>>
        /\ gen.state # "new" =>
              /\ Len(gen.sent) = 1
              /\ Len(gen.sent[1].messages) = Len(gen.input.messages) + 1
              /\ SubSeq(gen.sent[1].messages, 1, Len(gen.input.messages))
                    = gen.input.messages
              /\ IsSchemaInstruction(gen.sent[1].messages[Len(gen.input.messages) + 1])
              /\ gen.sent[1].tools = gen.input.tools
              /\ gen.sent[1].parameters = gen.input.parameters

C15_Witness ==
    /\ gen.entry = "generate"
    /\ gen.state = "done"
    /\ ~gen.out.ok
    /\ Len(gen.input.messages) = 2
    /\ gen.input.tools = "Tools with calculator"
    /\ Len(gen.sent) = 1
    /\ Len(gen.sent[1].messages) = 3

(* C16: when the backend stream finishes without error and the collected    *)
(* text does not parse into the target shape, generate fails with an error  *)
(* of its own kind that carries both the exact raw backend text and the     *)
(* diagnostic of the parser.                                                *)
C16_ParseErrorCarriesRawText ==
    (/\ gen.entry = "generate"
     /\ gen.state = "done"
     /\ AllOkFrom(source, 1)
     /\ ~Parse(ConcatFrom(source, 1)).ok) =>
        /\ ~gen.out.ok
        /\ gen.out.kind # "M::Error"
        /\ <<Parse(ConcatFrom(source, 1)).diag>> \in gen.out.carries
        /\ ConcatFrom(source, 1) \in gen.out.carries

(* C17: if a chunk of the backend stream is an error E, generate returns    *)
(* that error E (the first one), no parse of the partially collected text   *)
(* is attempted, and no value is returned.                                  *)
C17_GenerateBackendError ==
    (gen.entry = "generate" /\ gen.state = "done" /\ ~AllOkFrom(source, 1)) =>
        /\ ~gen.out.ok
        /\ gen.out.value = NoValue
        /\ gen.out.kind = "M::Error"
        /\ gen.out.carries = {<<source[FirstErrFrom(source, 1)].err>>}
        /\ gen.parsed = <<>>

C17_Witness ==
    /\ gen.entry = "generate"
    /\ gen.state = "done"
    /\ Len(source) = 2
    /\ source[1] = Ok(<<JsonHead, JsonTail>>)
    /\ source[2] = Err("E2")
    /\ gen.acc = <<JsonHead, JsonTail>>
    /\ gen.out.carries = {<<"E2">>}

(* C18: when no chunk is an error, generate parses exactly once, the        *)
(* concatenation of all backend chunks in order, and only after the source  *)
(* has finished, and returns the value of that parse; the text              *)
(* {"message":"test","count":42} in one chunk or split across chunks gives  *)
(* the value {message: "test", count: 42}.                                  *)
C18_GenerateParsesWholeText ==
    gen.entry = "generate" =>
        /\ gen.parsed # <<>> =>
              /\ gen.state = "done"
              /\ pos = Len(source)
              /\ avail = Len(source) + 1
        /\ (gen.state = "done" /\ AllOkFrom(source, 1)) =>
              /\ gen.parsed = <<ConcatFrom(source, 1)>>
              /\ gen.out.ok = Parse(ConcatFrom(source, 1)).ok
              /\ gen.out.value = Parse(ConcatFrom(source, 1)).value
              /\ ConcatFrom(source, 1) = <<JsonHead, JsonTail>> =>
                    gen.out = GenOk([message |-> "test", count |-> 42])

C18_Witness ==
    /\ gen.entry = "generate"
    /\ gen.state = "done"
    /\ source = <<Ok(<<JsonHead>>), Ok(<<JsonTail>>)>>
    /\ gen.out.ok
    /\ gen.out.value.count = 42

\* What generate is specified to return once a backend stream has been
\* consumed to its end or to its first error.
GenerateOutcome(s) ==
    IF ~AllOkFrom(s, 1) THEN GenErr("M::Error", <<s[FirstErrFrom(s, 1)].err>>)
    ELSE IF Parse(ConcatFrom(s, 1)).ok THEN GenOk(Parse(ConcatFrom(s, 1)).value)
    ELSE GenErr("serde_json::Error", <<Parse(ConcatFrom(s, 1)).diag>>)

\* The stream has been consumed to its end or to its first error.
BackendConsumed ==
    IF AllOkFrom(source, 1) THEN pos = Len(source) /\ pulls = Len(source) + 1
    ELSE pos >= FirstErrFrom(source, 1)

FixedInstruction(entry) ==
    IF entry = "summarize" THEN "Summarize text:" ELSE "Categorize text by provided schema"

(* C19 as stated: summarize and categorize each send the conversation       *)
(* [system fixed-instruction, user text] with the schema instruction        *)
(* appended, and their outcome for every backend behaviour is that of       *)
(* generate on that conversation: the stream collected, the text parsed.    *)
C19_BothAreGenerate ==
    (gen.entry \in {"summarize", "categorize"} /\ gen.sent # <<>>) =>
        /\ Len(gen.sent) = 1
        /\ Len(gen.sent[1].messages) = 3
        /\ SubSeq(gen.sent[1].messages, 1, 2)
              = Oneshot(FixedInstruction(gen.entry), gen.text)
        /\ IsSchemaInstruction(gen.sent[1].messages[3])
        /\ BackendConsumed => gen.out = GenerateOutcome(source)

(* C19, amended: categorize is the generate algorithm on the conversation   *)
(* [system "Categorize text by provided schema", user text]: schema         *)
(* instruction appended, stream collected, text parsed, outcome that of     *)
(* generate.  summarize shares only the shape of the conversation: it sends *)
(* [system "Summarize text:", user text] with default tools and parameters  *)
(* and no schema instruction, and hands the backend's stream to the caller  *)
(* as it is: nothing is collected, parsed or returned as a value.           *)
C19_CategorizeIsGenerate ==
    /\ (gen.entry = "categorize" /\ gen.sent # <<>>) =>
          /\ gen.sent = <<[messages |-> Oneshot(FixedInstruction("categorize"), gen.text)
                                            \o <<System(Prompt)>>,
                           tools |-> "Tools::default()",
                           parameters |-> "Parameters::default()"]>>
          /\ gen.state = "done" => gen.out = GenerateOutcome(source)
          /\ gen.state # "done" => gen.out = NoGenOut
    /\ (gen.entry = "categorize" /\ gen.sent = <<>>) => gen.state = "new"
    /\ gen.entry = "summarize" =>
          /\ gen.sent \in {<<>>, <<RequestNew(Oneshot("Summarize text:", gen.text))>>}
          /\ gen.sent = <<>> <=> gen.state = "new"
          /\ gen.parsed = <<>>
          /\ gen.acc = <<>>
          /\ gen.out = NoGenOut
          /\ Len(delivered) = pulls
          /\ \A i \in 1..Len(delivered) :
                delivered[i] = IF i <= Len(source) THEN ReadySome(source[i])
                               ELSE ReadyNone

C19_Witness ==
    /\ gen.entry = "categorize"
    /\ gen.state = "done"
    /\ gen.text = "doc B"
    /\ source = <<Ok(<<JsonHead>>), Ok(<<JsonTail>>)>>
    /\ gen.out = GenOk([message |-> "test", count |-> 42])
    /\ Len(gen.sent[1].messages) = 3

----------------------------------------------------------------------------
(* Further claims about the stream adapter *)

\* The concatenation, in order, of the texts of items i..j of s.
ConcatRange(s, i, j) == ConcatFrom(SubSeq(s, 1, j), i)

\* The source runs dry before it fails or ends: every item it has ready past
\* pos is a chunk, and neither a further item nor the end is ready.
SourceRunsDry ==
    /\ avail <= Len(source)
    /\ \A j \in (pos + 1)..avail : source[j].ok

(* C22: a poll of the collect operation returns pending exactly when the    *)
(* source reports that no item is ready (after the chunks that were ready   *)
(* have been taken), and it then keeps the text accumulated so far, the     *)
(* chunks just taken added; whatever the pattern of not-ready responses,    *)
(* the result is the one of a source whose items are all ready at once.     *)
C22_CollectSuspends ==
    /\ [][(mode = "future" /\ avail' = avail) =>
             /\ (lastPoll' = "pending") <=> SourceRunsDry
             /\ (mode' = "future") <=> SourceRunsDry
             /\ SourceRunsDry =>
                   /\ pos' = avail
                   /\ buffer' = buffer \o ConcatRange(source, pos + 1, avail)
                   /\ result' = NoResult]_vars
    /\ [](mode = "done" => result = CollectOf(startPos))

C22_Witness ==
    /\ mode = "future"
    /\ lastPoll = "pending"
    /\ Len(source) = MaxItems
    /\ pos = 2
    /\ avail = 2
    /\ buffer = <<"a", "b">>
    /\ result = NoResult

\* The concatenation, in order, of the Ok chunks the collect operation has
\* pulled so far (a failed item has no text).
PulledText == ConcatRange(source, startPos + 1, pos)

(* C24 as stated: the buffer is empty when collect mode begins and, after   *)
(* every step of a collect operation, it equals the concatenation in order  *)
(* of exactly the Ok chunks that operation has pulled from the source.      *)
C24_BufferIsPulledText ==
    mode \in {"future", "done"} => buffer = PulledText

(* C24, amended: the buffer is empty when collect mode begins and, after    *)
(* every step that leaves the operation suspended or ends it with an error, *)
(* it equals the concatenation in order of exactly the Ok chunks pulled so  *)
(* far; the step that ends the operation with success moves that            *)
(* concatenation out as the result and leaves the buffer empty.  Nothing    *)
(* else is ever buffered.                                                   *)
C24_BufferUntilHandedOver ==
    /\ (mode = "future" /\ pos = startPos) => buffer = <<>>
    /\ mode = "future" => buffer = PulledText
    /\ (mode = "done" /\ ~result.ok) => buffer = PulledText
    /\ (mode = "done" /\ result.ok) => (buffer = <<>> /\ result.text = PulledText)

C24_Witness ==
    /\ mode = "done"
    /\ Len(delivered) = 1
    /\ result = Ok(<<"a", "b">>)
    /\ buffer = <<>>
    /\ PulledText = <<"a", "b">>

(* C26: every lazy pull returns exactly what the underlying source returned *)
(* for that pull: item, error, finished or not-ready.  The adapter keeps no *)
(* failed or finished flag: the pull after a yielded error returns the next *)
(* thing the source yields, and a pull after the end asks the source again. *)
C26_LazyPullIsTransparent ==
    [][(mode = "stream" /\ mode' = "stream" /\ avail' = avail) =>
          /\ lastPoll' = SourcePollNext(pos).res.kind
          /\ pos' = SourcePollNext(pos).pos
          /\ delivered' = IF SourcePollNext(pos).res.kind = "pending" THEN delivered
                          ELSE Append(delivered, SourcePollNext(pos).res)
          /\ (pos >= 1 /\ pos < Len(source) /\ pos < avail /\ ~source[pos].ok) =>
                delivered' = Append(delivered, ReadySome(source[pos + 1]))
          /\ (pos = Len(source) /\ pos < avail) =>
                delivered' = Append(delivered, ReadyNone)]_vars

C26_Witness ==
    /\ mode = "stream"
    /\ Len(source) = 2
    /\ delivered = <<ReadySome(Err("E1")), ReadySome(Ok(<<"a">>)), ReadyNone, ReadyNone>>
    /\ lastPoll = "end"

----------------------------------------------------------------------------
(* Further claims about generate and summarize *)

(* C25: generate drains the backend stream as the collect operation of the  *)
(* stream adapter does.  For every chunk sequence, with or without an error *)
(* item, the text generate hands to the parser, or the error it returns,    *)
(* is the result the adapter's collect operation returns on that sequence,  *)
(* and both have pulled the source the same number of times.                *)
C25_GenerateDrainsAsCollect ==
    (gen.entry = "generate" /\ gen.state = "done") =>
        LET c == CollectLoop(0, <<>>)
        IN  /\ c.ready
            /\ c.out.ok =>
                  /\ gen.parsed = <<c.out.text>>
                  /\ gen.out.kind # "M::Error"
            /\ ~c.out.ok =>
                  /\ gen.parsed = <<>>
                  /\ gen.out = GenErr("M::Error", <<c.out.err>>)
            /\ pos = c.pos
            /\ pulls = c.pos + (IF c.out.ok THEN 1 ELSE 0)

C25_Witness ==
    /\ gen.entry = "generate"
    /\ gen.state = "done"
    /\ source = <<Ok(<<JsonHead>>), Err("E1")>>
    /\ CollectLoop(0, <<>>).out = Err("E1")
    /\ gen.out.carries = {<<"E1">>}
    /\ pulls = 2

(* C27: summarize(text) makes exactly one backend request, whose            *)
(* conversation is exactly the two messages [system "Summarize text:",      *)
(* user text], and hands the caller the chunk sequence of the backend to    *)
(* pull lazily: each chunk and each error unchanged and in order.           *)
C27_SummarizeStreams ==
    gen.entry = "summarize" =>
        /\ gen.state = "new" => (gen.sent = <<>> /\ delivered = <<>> /\ pulls = 0)
        /\ gen.state # "new" =>
              /\ Len(gen.sent) = 1
              /\ gen.sent[1].messages =
                    <<[role |-> "system", content |-> <<"Summarize text:">>],
                      [role |-> "user", content |-> <<gen.text>>]>>
        /\ Len(delivered) = pulls
        /\ \A i \in 1..Len(delivered) :
              delivered[i] = IF i <= Len(source) THEN ReadySome(source[i]) ELSE ReadyNone

C27_Witness ==
    /\ gen.entry = "summarize"
    /\ gen.state = "streaming"
    /\ gen.text = "doc A"
    /\ Len(gen.sent) = 1
    /\ delivered = <<ReadySome(Ok(<<JsonTail>>)), ReadySome(Err("E2")), ReadyNone>>

----------------------------------------------------------------------------
(* Further claims about the tool registry *)

\* What definitions() lists: the name and the description of each entry.
NamesAndDescriptions ==
    [i \in 1..Len(Definitions) |->
        [name |-> Definitions[i].name, description |-> Definitions[i].description]]

(* C28: Tools::call never changes which names are registered.  Whatever the *)
(* outcome (not found, decode failure, tool error, tool success), the list  *)
(* of names and descriptions definitions() returns after the call is the    *)
(* list it returned before.                                                 *)
C28_CallKeepsDefinitions ==
    [][lastOp'.op = "call" =>
          /\ NamesAndDescriptions' = NamesAndDescriptions
          /\ Definitions' = Definitions]_vars

C28_Witness ==
    /\ lastOp.op = "call"
    /\ lastOp.name = "calculator"
    /\ lastOp.args = ArgDivZero
    /\ ~lastOp.ok
    /\ lastOp.body.ran # 0
    /\ Len(NamesAndDescriptions) = 2
    /\ NamesAndDescriptions[1].name = "calculator"
    /\ NamesAndDescriptions[2].name = "greeter"

(* C29: after unregister(name), every call(name) fails with the not-found   *)
(* error and invokes no tool body, until a tool with that name is           *)
(* registered again; after such a registration call(name) is dispatched to  *)
(* the newly registered instance.                                           *)
C29_UnregisteredUntilRegisteredAgain ==
    [][lastOp'.op = "call" =>
          /\ hist[lastOp'.name].op = "unregister" =>
                /\ Target = 0
                /\ ~lastOp'.ok
                /\ lastOp'.msg = NotFound(lastOp'.name)
                /\ lastOp'.body.ran = 0
                /\ tools' = tools
          /\ hist[lastOp'.name].op = "register" =>
                /\ Target # 0
                /\ tools[Target].tool.id = hist[lastOp'.name].id
                /\ lastOp'.msg # NotFound(lastOp'.name)
                /\ lastOp'.body.ran \in {0, hist[lastOp'.name].id}
                /\ Decode(Arguments(tools[Target].tool.type), lastOp'.args).ok =>
                      /\ lastOp'.body.ran = hist[lastOp'.name].id
                      /\ tools'[Target].tool.calls = tools[Target].tool.calls + 1]_vars

\* The two instances registered so far both went under "calculator" (no other
\* name has seen an operation), the name has been unregistered since, and the
\* call on it found nothing.
C29_Witness ==
    /\ hist["calculator"].op = "unregister"
    /\ hist["greeter"].op = "none"
    /\ hist["missing"].op = "none"
    /\ nextId = 3
    /\ tools = <<>>
    /\ lastOp.op = "call"
    /\ lastOp.name = "calculator"
    /\ lastOp.args = ArgAdd
    /\ lastOp.msg = NotFound("calculator")
    /\ lastOp.body.ran = 0

----------------------------------------------------------------------------
(* Termination of the collect operation *)

(* C30: for every finite source that makes each of its items ready in the   *)
(* end, a collect operation that is polled again after each readiness       *)
(* notification returns a result in the end, the concatenation or the first *)
(* error; it pulls each source item at most once, and a poll that takes no  *)
(* item and does not finish is one the source answered with not-ready.      *)
C30_CollectTerminates ==
    /\ (mode = "future") ~> (mode = "done" /\ result = CollectOf(startPos))
    /\ [](mode \in {"future", "done"} => CollectPulls <= (Len(source) - startPos) + 1)
    /\ [][(mode = "future" /\ avail' = avail /\ mode' = "future") =>
             /\ pos' = avail
             /\ pulls' - pulls = avail - pos]_vars

C30_Witness ==
    /\ mode = "done"
    /\ startPos = 0
    /\ Len(source) = LiveMaxItems
    /\ AllOkFrom(source, 1)
    /\ source[2].text = <<>>
    /\ result = Ok(<<"a", "a">>)
    /\ CollectPulls = LiveMaxItems + 1

----------------------------------------------------------------------------
(* Cancellation *)

(* C21: if the stream, or its collect operation, is dropped at any point    *)
(* before completion (between lazy pulls, or while collect is suspended on  *)
(* a source that is not ready), the drop itself and everything after it     *)
(* pull nothing from the source and deliver nothing, and no result is       *)
(* produced: a dropped collect operation never has one.                     *)
C21_DropStopsPulls ==
    /\ [][mode' = "dropped" =>
             /\ pos' = pos
             /\ pulls' = pulls
             /\ delivered' = delivered
             /\ buffer' = buffer
             /\ result' = result]_vars
    /\ [](mode = "dropped" => result = NoResult)

\* The collect operation was dropped while suspended with text in its buffer;
\* the rest of the source has become ready since and has not been pulled.
C21_Witness ==
    /\ mode = "dropped"
    /\ lastPoll = "pending"
    /\ Len(source) = MaxItems
    /\ AllOkFrom(source, 1)
    /\ Len(delivered) = 1
    /\ buffer = <<"b">>
    /\ pos = 2
    /\ pulls = 2
    /\ avail = Len(source) + 1
    /\ result = NoResult

----------------------------------------------------------------------------
(* Two adapters driven together *)

\* What an adapter driven alone over src has delivered after Len(d) lazy
\* pulls, and what its collect operation returns after j of them.
DeliveredAlone(src, d) ==
    \A i \in 1..Len(d) : d[i] = IF i <= Len(src) THEN ReadySome(src[i]) ELSE ReadyNone
CollectAlone(src, j) ==
    IF AllOkFrom(src, j + 1) THEN Ok(ConcatFrom(src, j + 1))
    ELSE Err(src[FirstErrFrom(src, j + 1)].err)

\* Every piece of text and every error in the outputs and the buffer of an
\* adapter is among the given ones.
OnlyFrom(d, buf, res, chars, errs) ==
    /\ \A i \in 1..Len(buf) : buf[i] \in chars
    /\ \A i \in 1..Len(res.text) : res.text[i] \in chars
    /\ res.err \in errs \cup {"-", "unset"}
    /\ \A i \in 1..Len(d) :
          /\ \A k \in 1..Len(d[i].item.text) : d[i].item.text[k] \in chars
          /\ d[i].item.err \in errs \cup {"-"}

(* C23: two adapters over independent sources, driven in any interleaving   *)
(* of lazy pulls and collect polls: the results each one produces are those *)
(* it produces when driven alone, a step of one leaves the other as it was, *)
(* and no chunk or error of one source appears in the other's outputs or    *)
(* buffer.                                                                  *)
C23_StreamsDoNotInterfere ==
    /\ [](/\ DeliveredAlone(source, delivered)
          /\ mode = "done" => result = CollectAlone(source, Len(delivered))
          /\ mode = "future" => buffer = ConcatRange(source, startPos + 1, pos)
          /\ OnlyFrom(delivered, buffer, result, {"a"}, {"E1"})
          /\ DeliveredAlone(peer.source, peer.delivered)
          /\ peer.mode = "done" => peer.result = CollectAlone(peer.source, Len(peer.delivered))
          /\ peer.mode = "future" =>
                peer.buffer = ConcatRange(peer.source, peer.startPos + 1, peer.pos)
          /\ OnlyFrom(peer.delivered, peer.buffer, peer.result, {"b"}, {"E2"}))
    /\ [][\/ peer' = peer
          \/ UNCHANGED <<source, avail, pos, mode, buffer, delivered, lastPoll, result,
                         startPos, pulls>>]_vars

\* Both were pulled lazily once and then collected: the first is suspended with
\* its chunk buffered while the second has run to its error.
C23_Witness ==
    /\ source = <<Ok(<<"a">>), Ok(<<"a">>)>>
    /\ peer.source = <<Ok(<<"b">>), Err("E2")>>
    /\ delivered = <<ReadySome(Ok(<<"a">>))>>
    /\ mode = "future"
    /\ lastPoll = "pending"
    /\ buffer = <<"a">>
    /\ peer.delivered = <<ReadySome(Ok(<<"b">>))>>
    /\ peer.mode = "done"
    /\ peer.result = Err("E2")

====
